---- MODULE Spec2Model ----
(***************************************************************************)
(* Model of src/spectra.py: the requests the script sends to an IDL        *)
(* session through pidly (idl_init, get_idl_spectrum, get_idl_spectra,      *)
(* retrieve_standards).                                                     *)
(*                                                                         *)
(* Numbers.  teff and the wavelengths are integers (K, Angstrom), as the    *)
(* docstring of get_idl_spectrum declares them, so %d and %i print them     *)
(* unchanged.  logg, feh and wl_per_pixel are counted in tenths (5.5 is     *)
(* 55), which %f prints exactly.  Values inside the engine's wavelength     *)
(* grids are in tenths of an Angstrom.                                      *)
(*                                                                         *)
(* The engine (IDL, get_spec, resamp) is not part of the repository: the    *)
(* arrays it computes are kept as terms that record the command that made   *)
(* them.                                                                    *)
(***************************************************************************)
EXTENDS Integers, Sequences, FiniteSets, TLC

VARIABLES
    sessions,   \* the IDL sessions created so far, in creation order
    call,       \* the top-level call in progress or just ended, with its outcome
    issued,     \* the commands that call has sent: [session, star, cmd]
    before,     \* sessions as they were when that call began
    ops,        \* number of top-level calls begun
    star_i,     \* get_idl_spectra: loop index
    spectra,    \* get_idl_spectra: the local list
    wave        \* get_idl_spectra: the local wave

vars == <<sessions, call, issued, before, ops, star_i, spectra, wave>>

----------------------------------------------------------------------------
(* Bounds of the exploration *)

MaxOps == 3
MaxStars == 2

----------------------------------------------------------------------------
(* Constants of the source *)

TeffMin == 2500
TeffMax == 8000
LoggMin == -10
LoggMax == 55
FehMin == -50
FehMax == 10
WlLowest == 2000
WlHighest == 200000
MaskTeff == 5500
MaskLogg == 40
resolution == 7000
norm == 1
using_echelle == FALSE

Undefined == [kind |-> "undefined"]
Unbound == [kind |-> "unbound"]
None == <<>>

----------------------------------------------------------------------------
(* Engine session *)

IdlInitCommands ==
    << [op |-> "path", arg |-> "/home/thomasn/idl_libraries/coyote"],
       [op |-> "compile", arg |-> "/home/thomasn/grids/gaussbroad.pro"],
       [op |-> "compile", arg |-> "/home/thomasn/grids/get_spec.pro"],
       [op |-> "grid", arg |-> "/home/thomasn/grids/grid_synthspec.sav"] >>

NewSession ==
    [setup |-> IdlInitCommands, CFe |-> Undefined, wave |-> Undefined,
     spectrum |-> Undefined, waveout |-> Undefined]

Tag(s, i, cmds) == [j \in 1..Len(cmds) |-> [session |-> s, star |-> i, cmd |-> cmds[j]]]

(* What the engine may leave in waveout for a range [a:b:s] whose end lies
   below its start: the engine's answer is not fixed by the repository. *)
DegenerateGrid == {"error", "single"}

GridStart(c) == 10 * c.lo + c.lo_plus
GridFinish(c) == 10 * c.hi - 2 * c.hi_minus_twice

EngineGrid(s, c) ==
    IF c.step > 0 /\ GridStart(c) <= GridFinish(c)
    THEN {[s EXCEPT !.waveout = [kind |-> "grid", start |-> GridStart(c), step |-> c.step,
                                 n |-> (GridFinish(c) - GridStart(c)) \div c.step + 1]]}
    ELSE {IF d = "error" THEN s
          ELSE [s EXCEPT !.waveout = [kind |-> "grid", start |-> GridStart(c),
                                      step |-> c.step, n |-> 1]] : d \in DegenerateGrid}

SynthTerm(k, s, c) ==
    [kind |-> k, teff |-> c.teff, logg |-> c.logg, feh |-> c.feh, CFe |-> s.CFe,
     wl_min |-> c.wl_min, wl_max |-> c.wl_max, ipres |-> c.ipres, norm |-> c.norm,
     grid |-> s.setup[4].arg]

(* One command: the set of states the session may be in afterwards. *)
Engine(s, c) ==
    CASE c.op = "CFe" -> {[s EXCEPT !.CFe = [kind |-> "number", value |-> 0]]}
      [] c.op = "get_spec" ->
            {[s EXCEPT !.spectrum = SynthTerm("spectrum", s, c),
                       !.wave = SynthTerm("wave", s, c)]}
      [] c.op = "waveout" -> EngineGrid(s, c)
      [] c.op = "resamp" ->
            IF s.waveout = Undefined \/ s.wave = Undefined \/ s.spectrum = Undefined
            THEN {s}
            ELSE {[s EXCEPT !.spectrum = [kind |-> "resamp", wave |-> s.wave,
                                          spectrum |-> s.spectrum, waveout |-> s.waveout]]}
      [] c.op = "wave=waveout" ->
            IF s.waveout = Undefined THEN {s} ELSE {[s EXCEPT !.wave = s.waveout]}

RECURSIVE Run(_, _)
Run(s, cmds) ==
    IF cmds = <<>> THEN {s}
    ELSE UNION {Run(t, Tail(cmds)) : t \in Engine(s, Head(cmds))}

----------------------------------------------------------------------------
(* get_idl_spectrum *)

POOB == "ParameterOutOfBoundsException"

(* Mutant: the bounds themselves rejected. *)
TeffOutOfBoundsStrict(teff) == teff >= TeffMax \/ teff <= TeffMin

TeffOutOfBounds(teff) == teff > TeffMax \/ teff < TeffMin
LoggOutOfBounds(logg) == logg > LoggMax \/ logg < LoggMin
FehOutOfBounds(feh) == feh > FehMax \/ feh < FehMin
WlOutOfBounds(wl_min, wl_max) == wl_min > wl_max \/ wl_max > WlHighest \/ wl_min < WlLowest

(* Mutant: surface gravity checked before temperature. *)
ValidateLoggFirst(a) ==
    IF LoggOutOfBounds(a.logg) THEN "Surface gravity"
    ELSE IF TeffOutOfBounds(a.teff) THEN "Temperature"
    ELSE IF FehOutOfBounds(a.feh) THEN "Metallicity"
    ELSE IF WlOutOfBounds(a.wl_min, a.wl_max) THEN "Wavelengths"
    ELSE "ok"

Validate(a) ==
    IF TeffOutOfBounds(a.teff) THEN "Temperature"
    ELSE IF LoggOutOfBounds(a.logg) THEN "Surface gravity"
    ELSE IF FehOutOfBounds(a.feh) THEN "Metallicity"
    ELSE IF WlOutOfBounds(a.wl_min, a.wl_max) THEN "Wavelengths"
    ELSE "ok"

(* Mutant: the synthesis command alone, CFe never assigned. *)
SynthCommandsNoCFe(a) ==
    << [op |-> "get_spec", teff |-> a.teff, logg |-> a.logg, feh |-> a.feh,
        wl_min |-> a.wl_min, wl_max |-> a.wl_max, ipres |-> a.resolution,
        norm |-> a.norm] >>

SynthCommands(a) ==
    << [op |-> "CFe"],
       [op |-> "get_spec", teff |-> a.teff, logg |-> a.logg, feh |-> a.feh,
        wl_min |-> a.wl_min, wl_max |-> a.wl_max, ipres |-> a.resolution,
        norm |-> a.norm] >>

(* Mutant: the output grid starts at wl_min. *)
GridCommandFromMin(a) ==
    [op |-> "waveout", lo |-> a.wl_min, lo_plus |-> 0,
     hi |-> a.wl_max, hi_minus_twice |-> a.wl_per_pixel[1], step |-> a.wl_per_pixel[1]]

GridCommand(a) ==
    [op |-> "waveout", lo |-> a.wl_min, lo_plus |-> a.wl_per_pixel[1],
     hi |-> a.wl_max, hi_minus_twice |-> a.wl_per_pixel[1], step |-> a.wl_per_pixel[1]]

ResampleCommands(a) ==
    << GridCommand(a), [op |-> "resamp"], [op |-> "wave=waveout"] >>

Outcome(s, cmds, status, error, message) ==
    [session |-> s, cmds |-> cmds, status |-> status, error |-> error,
     message |-> message,
     ret |-> IF status = "returned" THEN <<s.wave, s.spectrum>> ELSE <<>>]

(* Mutant: the output-grid command is formatted before anything is sent. *)
GetIdlSpectrumFormatFirst(s, a) ==
    IF Validate(a) # "ok"
    THEN {Outcome(s, <<>>, "raised", POOB, Validate(a))}
    ELSE IF a.do_resample /\ a.wl_per_pixel = None
    THEN {Outcome(s, <<>>, "raised", "TypeError", "")}
    ELSE IF ~a.do_resample
    THEN {Outcome(t, SynthCommands(a), "returned", "none", "") : t \in Run(s, SynthCommands(a))}
    ELSE {Outcome(t, SynthCommands(a) \o ResampleCommands(a), "returned", "none", "") :
             t \in Run(s, SynthCommands(a) \o ResampleCommands(a))}

(* The outcomes of get_idl_spectrum(idl, ...) on a session in state s. *)
GetIdlSpectrum(s, a) ==
    IF Validate(a) # "ok"
    THEN {Outcome(s, <<>>, "raised", POOB, Validate(a))}
    ELSE IF ~a.do_resample
    THEN {Outcome(t, SynthCommands(a), "returned", "none", "") : t \in Run(s, SynthCommands(a))}
    ELSE IF a.wl_per_pixel = None
    THEN {Outcome(t, SynthCommands(a), "raised", "TypeError", "") : t \in Run(s, SynthCommands(a))}
    ELSE {Outcome(t, SynthCommands(a) \o ResampleCommands(a), "returned", "none", "") :
             t \in Run(s, SynthCommands(a) \o ResampleCommands(a))}

----------------------------------------------------------------------------
(* Inputs *)

TeffValues == {TeffMin - 1, TeffMin, TeffMax, TeffMax + 1}
LoggValues == {LoggMin - 1, LoggMin, LoggMax, LoggMax + 1}
FehValues == {FehMin - 1, FehMin, FehMax, FehMax + 1}
Stars == TeffValues \X LoggValues \X FehValues

WlRanges ==
    { <<WlLowest, WlLowest + 3>>, <<WlLowest, WlHighest>>, <<WlLowest - 1, WlLowest + 3>>,
      <<WlLowest, WlHighest + 1>>, <<WlLowest + 3, WlLowest>> }

Modes ==
    { <<FALSE, None>>, <<FALSE, <<10>>>>, <<TRUE, None>>, <<TRUE, <<10>>>>, <<TRUE, <<40>>>> }

BatchStars ==
    { <<TeffMin, LoggMin, FehMin>>, <<TeffMax, LoggMax, FehMax>>,
      <<TeffMax + 1, LoggMax, FehMax>>, <<TeffMin, LoggMax + 1, FehMin>> }
StarLists == UNION {[1..n -> BatchStars] : n \in 0..MaxStars}
BatchRanges == { <<WlLowest, WlLowest + 3>>, <<WlLowest, WlHighest>> }
BatchModes == BOOLEAN \X {None, <<10>>}

StandardRows == { <<5000, 45, 0>>, <<6000, 45, 0>> }
Tables == {[kind |-> "missing", rows |-> <<>>]}
            \cup {[kind |-> "table", rows |-> r] :
                     r \in UNION {[1..n -> StandardRows] : n \in 0..MaxStars}}

Args(star, wl, res, nrm, do_resample, wl_per_pixel) ==
    [teff |-> star[1], logg |-> star[2], feh |-> star[3], wl_min |-> wl[1],
     wl_max |-> wl[2], resolution |-> res, norm |-> nrm, do_resample |-> do_resample,
     wl_per_pixel |-> wl_per_pixel]

----------------------------------------------------------------------------
(* The caller's view of a top-level call *)

NoCall ==
    [op |-> "none", status |-> "idle", idl |-> 0, stars |-> <<>>, wl |-> <<0, 0>>,
     do_resample |-> FALSE, wl_per_pixel |-> None, error |-> "none", message |-> "",
     ret |-> <<>>, at |-> 0]

Idle == call.status = "idle"

Init ==
    /\ sessions = <<>>
    /\ call = NoCall
    /\ issued = <<>>
    /\ before = <<>>
    /\ ops = 0
    /\ star_i = 0
    /\ spectra = <<>>
    /\ wave = Unbound

Begin ==
    /\ Idle
    /\ ops < MaxOps
    /\ ops' = ops + 1
    /\ before' = sessions

(* idl = idl_init() *)
IdlInit ==
    /\ Begin
    /\ sessions' = Append(sessions, NewSession)
    /\ issued' = Tag(Len(sessions) + 1, 0, IdlInitCommands)
    /\ call' = [NoCall EXCEPT !.op = "idl_init", !.status = "returned",
                              !.ret = <<Len(sessions) + 1>>]
    /\ UNCHANGED <<star_i, spectra, wave>>

(* get_idl_spectrum(idl, teff, logg, feh, wl_min, wl_max, resolution, norm,
                    do_resample, wl_per_pixel) *)
Request ==
    /\ Begin
    /\ \E idl \in 1..Len(sessions), star \in Stars, wl \in WlRanges, m \in Modes :
         \E o \in GetIdlSpectrum(sessions[idl], Args(star, wl, resolution, norm, m[1], m[2])) :
            /\ sessions' = [sessions EXCEPT ![idl] = o.session]
            /\ issued' = Tag(idl, 0, o.cmds)
            /\ call' = [NoCall EXCEPT !.op = "get_idl_spectrum", !.status = o.status,
                                      !.idl = idl, !.stars = <<star>>, !.wl = wl,
                                      !.do_resample = m[1], !.wl_per_pixel = m[2],
                                      !.error = o.error, !.message = o.message,
                                      !.ret = o.ret]
    /\ UNCHANGED <<star_i, spectra, wave>>

(* get_idl_spectra passes the literal True as do_resample of every request. *)
BatchDoResample(do_resample) == TRUE

(* Mutant: the rows collected so far are handed back with the exception. *)
RaiseKeepingRows(c, o) ==
    [c EXCEPT !.status = "raised", !.error = o.error, !.message = o.message,
              !.ret = <<wave, spectra>>]

(* An exception of a request leaves get_idl_spectra: the loop has no handler, and
   the locals of the call (spectra, wave) go with its frame. *)
Raise(c, o) ==
    [c EXCEPT !.status = "raised", !.error = o.error, !.message = o.message, !.ret = <<>>]

(* get_idl_spectra(idl, teffs, loggs, fehs, wl_min, wl_max, resolution, norm,
                   do_resample, wl_per_pixel): entry, spectra = [] *)
BatchStart ==
    /\ Begin
    /\ \E idl \in 1..Len(sessions), stars \in StarLists, wl \in BatchRanges, m \in BatchModes :
         call' = [NoCall EXCEPT !.op = "get_idl_spectra", !.status = "running",
                                !.idl = idl, !.stars = stars, !.wl = wl,
                                !.do_resample = m[1], !.wl_per_pixel = m[2]]
    /\ issued' = <<>>
    /\ star_i' = 0
    /\ spectra' = <<>>
    /\ wave' = Unbound
    /\ UNCHANGED sessions

(* Mutant: an out-of-bounds tuple is caught, skipped, and the loop goes on. *)
BatchStepSkipping ==
    /\ call.op = "get_idl_spectra"
    /\ call.status = "running"
    /\ star_i < Len(call.stars)
    /\ \E o \in GetIdlSpectrum(sessions[call.idl],
                               Args(call.stars[star_i + 1], call.wl, resolution, norm,
                                    BatchDoResample(call.do_resample), call.wl_per_pixel)) :
         /\ sessions' = [sessions EXCEPT ![call.idl] = o.session]
         /\ issued' = issued \o Tag(call.idl, star_i, o.cmds)
         /\ IF o.status = "raised" /\ o.error # POOB
            THEN /\ call' = Raise([call EXCEPT !.at = star_i], o)
                 /\ star_i' = 0
                 /\ spectra' = <<>>
                 /\ wave' = Unbound
            ELSE /\ call' = [call EXCEPT !.at = star_i + 1]
                 /\ star_i' = star_i + 1
                 /\ spectra' = IF o.status = "raised" THEN spectra
                               ELSE Append(spectra, o.ret[2])
                 /\ wave' = IF o.status = "raised" THEN wave ELSE o.ret[1]
    /\ UNCHANGED <<before, ops>>

(* One pass of the loop over zip(teffs, loggs, fehs). *)
BatchStep ==
    /\ call.op = "get_idl_spectra"
    /\ call.status = "running"
    /\ star_i < Len(call.stars)
    /\ \E o \in GetIdlSpectrum(sessions[call.idl],
                               Args(call.stars[star_i + 1], call.wl, resolution, norm,
                                    BatchDoResample(call.do_resample), call.wl_per_pixel)) :
         /\ sessions' = [sessions EXCEPT ![call.idl] = o.session]
         /\ issued' = issued \o Tag(call.idl, star_i, o.cmds)
         /\ IF o.status = "raised"
            THEN /\ call' = Raise([call EXCEPT !.at = star_i], o)
                 /\ star_i' = 0
                 /\ spectra' = <<>>
                 /\ wave' = Unbound
            ELSE /\ call' = [call EXCEPT !.at = star_i + 1]
                 /\ star_i' = star_i + 1
                 /\ spectra' = Append(spectra, o.ret[2])
                 /\ wave' = o.ret[1]
    /\ UNCHANGED <<before, ops>>

(* spectra = np.array(spectra); return wave, spectra *)
BatchReturn ==
    /\ call.op = "get_idl_spectra"
    /\ call.status = "running"
    /\ star_i = Len(call.stars)
    /\ call' = IF wave = Unbound
               THEN [call EXCEPT !.status = "raised", !.error = "UnboundLocalError"]
               ELSE [call EXCEPT !.status = "returned", !.ret = <<wave, spectra>>]
    /\ star_i' = 0
    /\ spectra' = <<>>
    /\ wave' = Unbound
    /\ UNCHANGED <<sessions, issued, before, ops>>

Mask(rows) == SelectSeq(rows, LAMBDA r : r[1] < MaskTeff /\ r[2] > MaskLogg)

(* retrieve_standards(idl).  using_echelle is False, so the module never binds
   wl_per_pixel: the first row that passes the mask ends the call with a NameError
   before any request is made; with no row, wave is unbound at the second savetxt. *)
RetrieveStandards ==
    /\ Begin
    /\ ~using_echelle
    /\ \E idl \in 0..Len(sessions), t \in Tables :
         IF t.kind = "missing"
         THEN /\ sessions' = sessions
              /\ issued' = <<>>
              /\ call' = [NoCall EXCEPT !.op = "retrieve_standards", !.status = "raised",
                                        !.idl = idl, !.stars = t.rows,
                                        !.error = "FileNotFoundError"]
         ELSE /\ sessions' = Append(sessions, NewSession)
              /\ issued' = Tag(Len(sessions) + 1, 0, IdlInitCommands)
              /\ call' = [NoCall EXCEPT !.op = "retrieve_standards", !.status = "raised",
                                        !.idl = idl, !.stars = t.rows,
                                        !.error = IF Mask(t.rows) = <<>>
                                                  THEN "UnboundLocalError"
                                                  ELSE "NameError"]
    /\ UNCHANGED <<star_i, spectra, wave>>

(* The caller takes the result, or catches the exception, and goes on. *)
Continue ==
    /\ call.status \in {"returned", "raised"}
    /\ call' = NoCall
    /\ issued' = <<>>
    /\ before' = <<>>
    /\ star_i' = 0
    /\ spectra' = <<>>
    /\ wave' = Unbound
    /\ UNCHANGED <<sessions, ops>>

Next ==
    \/ IdlInit
    \/ Request
    \/ BatchStart
    \/ BatchStep
    \/ BatchReturn
    \/ RetrieveStandards
    \/ Continue

Spec == Init /\ [][Next]_vars

----------------------------------------------------------------------------
(* Vocabulary of the properties.  The bounds are written out as the
   specification states them (logg and feh in tenths). *)

IsRequest == call.op = "get_idl_spectrum"
IsBatch == call.op = "get_idl_spectra"
Ended == call.status \in {"returned", "raised"}

TeffOut(star) == star[1] < 2500 \/ star[1] > 8000
LoggOut(star) == star[2] < -10 \/ star[2] > 55
FehOut(star) == star[3] < -50 \/ star[3] > 10
WlOut(wl) == wl[1] > wl[2] \/ wl[2] > 200000 \/ wl[1] < 2000
OutOfBounds(star, wl) == TeffOut(star) \/ LoggOut(star) \/ FehOut(star) \/ WlOut(wl)

IssuedOps == [j \in 1..Len(issued) |-> issued[j].cmd.op]
SynthOps == <<"CFe", "get_spec">>
ResampleOps == <<"waveout", "resamp", "wave=waveout">>

(* The (teff, logg, feh) a flux array was synthesised for. *)
StarOf(flux) ==
    IF flux.kind = "resamp"
    THEN <<flux.spectrum.teff, flux.spectrum.logg, flux.spectrum.feh>>
    ELSE <<flux.teff, flux.logg, flux.feh>>

(* Index (from 0) of the first out-of-bounds tuple of the batch; the number of
   tuples when there is none. *)
FirstBad ==
    LET bad == {i \in 1..Len(call.stars) : OutOfBounds(call.stars[i], call.wl)}
    IN IF bad = {} THEN Len(call.stars)
       ELSE (CHOOSE i \in bad : \A j \in bad : i <= j) - 1

CommandsFor(i) == Cardinality({j \in 1..Len(issued) : issued[j].star = i})

----------------------------------------------------------------------------
(* C1: a get_idl_spectrum call with teff outside [2500, 8000], logg outside
   [-1, 5.5], feh outside [-5, 1], wl_min > wl_max, wl_max > 200000 or
   wl_min < 2000 raises ParameterOutOfBoundsException, sends no command and
   leaves every session as it was; a call with all values inside the closed
   bounds is not rejected. *)
C1_RejectedIffOutOfBounds ==
    IsRequest =>
        /\ OutOfBounds(call.stars[1], call.wl) =>
              /\ call.status = "raised"
              /\ call.error = POOB
              /\ issued = <<>>
              /\ sessions = before
        /\ ~OutOfBounds(call.stars[1], call.wl) => call.error # POOB

C1_Witness ==
    /\ IsRequest
    /\ OutOfBounds(call.stars[1], call.wl)
    /\ call.error = POOB
    /\ before[call.idl].wave # Undefined

(* C2 as claimed: a valid request makes exactly one command round-trip without
   resampling and exactly two with it. *)
C2_OneOrTwoRoundTrips ==
    (IsRequest /\ ~OutOfBounds(call.stars[1], call.wl)) =>
        Len(issued) = IF call.do_resample THEN 2 ELSE 1

(* C2 as amended: a valid request sends exactly two commands without resampling
   (the CFe assignment, then the one synthesis command) and, with resampling
   and a numeric wl_per_pixel, exactly five (then the output grid, the one
   resample command and wave = waveout), all to the session passed in, and then
   returns that session's wave and spectrum. *)
C2_TwoOrFiveCommands ==
    (/\ IsRequest
     /\ ~OutOfBounds(call.stars[1], call.wl)
     /\ call.do_resample => call.wl_per_pixel # None) =>
        /\ call.status = "returned"
        /\ IssuedOps = IF call.do_resample THEN SynthOps \o ResampleOps ELSE SynthOps
        /\ \A j \in 1..Len(issued) : issued[j].session = call.idl
        /\ call.ret = <<sessions[call.idl].wave, sessions[call.idl].spectrum>>

C2_Witness ==
    /\ IsRequest
    /\ call.status = "returned"
    /\ call.do_resample
    /\ Len(issued) = 5

(* C3: of several violated bounds only the first is reported, in the order
   teff, logg, feh, wavelengths. *)
C3_FirstViolationReported ==
    (IsRequest /\ call.error = POOB) =>
        call.message = IF TeffOut(call.stars[1]) THEN "Temperature"
                       ELSE IF LoggOut(call.stars[1]) THEN "Surface gravity"
                       ELSE IF FehOut(call.stars[1]) THEN "Metallicity"
                       ELSE "Wavelengths"

C3_Witness ==
    /\ IsRequest
    /\ TeffOut(call.stars[1]) /\ LoggOut(call.stars[1]) /\ FehOut(call.stars[1])
    /\ WlOut(call.wl)
    /\ call.message = "Temperature"

(* C4 as claimed: for every N >= 0, a batch of N valid tuples returns a flux
   table of exactly N rows, row i being the flux of the request for tuple i,
   the requests having been made in input order. *)
C4_RowPerTuple ==
    (/\ IsBatch
     /\ Ended
     /\ FirstBad = Len(call.stars)
     /\ call.wl_per_pixel # None) =>
        /\ call.status = "returned"
        /\ Len(call.ret[2]) = Len(call.stars)
        /\ \A i \in 1..Len(call.stars) : StarOf(call.ret[2][i]) = call.stars[i]
        /\ \A j \in 1..Len(issued) - 1 : issued[j].star <= issued[j + 1].star

(* C5: in a batch whose first out-of-bounds tuple is tuple k, no command is
   ever sent for tuple k or a later one, the loop never gets past tuple k, the
   batch does not return, and when it ends at tuple k it ends with
   ParameterOutOfBoundsException raised out of get_idl_spectra, every command
   of tuples 0..k-1 having been sent. *)
C5_BatchStopsAtFirstBad ==
    IsBatch =>
        /\ \A j \in 1..Len(issued) : issued[j].star < FirstBad
        /\ star_i <= FirstBad
        /\ call.at <= FirstBad
        /\ FirstBad < Len(call.stars) => call.status # "returned"
        /\ (call.status = "raised" /\ FirstBad < Len(call.stars) /\ call.at = FirstBad) =>
              /\ call.error = POOB
              /\ call.ret = <<>>
              /\ \A i \in 0..FirstBad - 1 : CommandsFor(i) = 5
        /\ (call.status = "raised" /\ call.error = POOB) => call.at = FirstBad

C5_Witness ==
    /\ IsBatch
    /\ call.status = "raised"
    /\ call.error = POOB
    /\ call.at = 1
    /\ Len(call.stars) = 2
    /\ CommandsFor(0) = 5

(* C6 as claimed: when tuple k of a batch is out of bounds, the spectra
   collected for tuples 0..k-1 are still available to the caller after the
   call has ended. *)
C6_PriorResultsKept ==
    (IsBatch /\ call.status = "raised" /\ call.error = POOB) =>
        \/ (call.ret # <<>> /\ Len(call.ret[2]) = call.at)
        \/ Len(spectra) = call.at

(* C6 as amended: when tuple k of a batch is out of bounds, the call returns
   nothing and its list of collected spectra is gone with it; of the work done
   for tuples 0..k-1 only the session's wave and spectrum variables remain, and
   they hold the result of tuple k-1. *)
C6_PriorResultsLost ==
    (IsBatch /\ call.status = "raised" /\ call.error = POOB) =>
        /\ call.ret = <<>>
        /\ spectra = <<>>
        /\ wave = Unbound
        /\ call.at >= 1 => StarOf(sessions[call.idl].spectrum) = call.stars[call.at]

C6_Witness ==
    /\ IsBatch
    /\ call.status = "raised"
    /\ call.error = POOB
    /\ call.at = 1
    /\ CommandsFor(0) = 5
    /\ call.ret = <<>>

(* C7 as claimed: a batch called with do_resample false sends no resample
   command for any tuple. *)
C7_BatchHonoursDoResample ==
    (IsBatch /\ ~call.do_resample) =>
        \A j \in 1..Len(issued) : issued[j].cmd.op \in {"CFe", "get_spec"}

(* C8 as claimed: whatever calls are made there is at most one engine session,
   and retrieve_standards given a session creates no other. *)
C8_AtMostOneSession ==
    /\ Len(sessions) <= 1
    /\ (call.op = "retrieve_standards" /\ call.idl >= 1) => Len(sessions) = Len(before)

(* C9 as claimed: every valid request with do_resample true and a step s > 0
   returns as wavelengths the uniform grid of step s that starts at wl_min + s
   and has floor((wl_max - 2s - (wl_min + s)) / s) + 1 elements. *)
C9_GridOfAnyRange ==
    (/\ IsRequest
     /\ call.status = "returned"
     /\ call.do_resample
     /\ call.wl_per_pixel # None) =>
        LET s == call.wl_per_pixel[1]
        IN call.ret[1] = [kind |-> "grid", start |-> 10 * call.wl[1] + s, step |-> s,
                          n |-> (10 * call.wl[2] - 2 * s - (10 * call.wl[1] + s)) \div s + 1]

(* C9 as amended: the same, for the requests whose range is at least three
   steps wide (wl_max - wl_min >= 3s); the grid then has at least one element
   and is also what the session's wave variable holds. *)
C9_GridOfWideRange ==
    (/\ IsRequest
     /\ call.status = "returned"
     /\ call.do_resample
     /\ call.wl_per_pixel # None
     /\ 10 * (call.wl[2] - call.wl[1]) >= 3 * call.wl_per_pixel[1]) =>
        LET s == call.wl_per_pixel[1]
        IN /\ call.ret[1] = [kind |-> "grid", start |-> 10 * call.wl[1] + s, step |-> s,
                             n |-> (10 * call.wl[2] - 2 * s - (10 * call.wl[1] + s)) \div s + 1]
           /\ call.ret[1].n >= 1
           /\ sessions[call.idl].wave = call.ret[1]

C9_Witness ==
    /\ IsRequest
    /\ call.status = "returned"
    /\ call.do_resample
    /\ call.wl_per_pixel # None
    /\ call.ret[1].kind = "grid"
    /\ call.ret[1].n >= 2

(* C10: a valid request with do_resample true and wl_per_pixel None fails with
   the CFe assignment and the synthesis command sent and no resample command,
   returns nothing, and leaves the session's wave and spectrum holding the
   unresampled result of this request. *)
C10_FailsAfterSynthesis ==
    (/\ IsRequest
     /\ ~OutOfBounds(call.stars[1], call.wl)
     /\ call.do_resample
     /\ call.wl_per_pixel = None) =>
        /\ call.status = "raised"
        /\ call.error = "TypeError"
        /\ call.ret = <<>>
        /\ IssuedOps = SynthOps
        /\ sessions[call.idl].CFe # Undefined
        /\ sessions[call.idl].spectrum.kind = "spectrum"
        /\ sessions[call.idl].wave.kind = "wave"
        /\ StarOf(sessions[call.idl].spectrum) = call.stars[1]
        /\ <<sessions[call.idl].wave.wl_min, sessions[call.idl].wave.wl_max>> = call.wl

C10_Witness ==
    /\ IsRequest
    /\ call.error = "TypeError"
    /\ before[call.idl].spectrum # Undefined
    /\ before[call.idl].spectrum # sessions[call.idl].spectrum

====
